---- MODULE Spec2Model ----
(***************************************************************************)
(* Transaction-Engine: replay of a CSV log of deposits, withdrawals,       *)
(* disputes, resolves and chargebacks against per-client accounts.         *)
(*                                                                         *)
(* Source: src/src/transaction.rs (apply_transactions, TransactionDb,      *)
(* Transaction), src/src/client.rs (ClientDb, Client), src/src/main.rs.    *)
(*                                                                         *)
(* Balances and amounts are f64 in the source.  They are modelled as       *)
(* binary floating-point numbers m * 2^e with a MantissaBits-bit           *)
(* significand and round-to-nearest-even after every operation, which is   *)
(* the arithmetic of IEEE-754 binary64 at a reduced precision (binary64    *)
(* has a 53-bit significand; TLC's integers are 32-bit).  Exponents are    *)
(* unbounded: the magnitudes reached here are far from the binary64        *)
(* overflow and underflow thresholds.  Inputs are finite decimals.         *)
(***************************************************************************)
EXTENDS Integers, Sequences, FiniteSets, TLC

(***************************************************************************)
(* Bounds of the model.                                                    *)
(***************************************************************************)
MantissaBits == 12          \* significand width of the modelled floats
MaxRecords == 3             \* rows read from the input before it ends
MaxFileLen == 4             \* rows of an input file given in full
MaxSignedLen == 3           \* rows of an input file with signed amounts

(***************************************************************************)
(* f64 arithmetic.  A float is [m |-> significand, e |-> exponent] with    *)
(* value m * 2^e, kept canonical (m odd, or m = 0 and e = 0) so that       *)
(* equality of records is equality of values.  The rounding helpers are   *)
(* functions: a function's argument is evaluated once, where it is         *)
(* applied.                                                                *)
(***************************************************************************)
Abs(n) == IF n < 0 THEN -n ELSE n

Sign(n) == IF n < 0 THEN -1 ELSE 1

Min(a, b) == IF a < b THEN a ELSE b

BitLen[n \in Nat] == IF n = 0 THEN 0 ELSE 1 + BitLen[n \div 2]

Norm[m \in Int, e \in Int] ==
    IF m = 0 THEN [m |-> 0, e |-> 0]
    ELSE IF m % 2 = 0 THEN Norm[m \div 2, e + 1]
    ELSE [m |-> m, e |-> e]

\* Round the exact value m * 2^e to MantissaBits significant bits,
\* to nearest, ties to even.
RoundP[m \in Int, e \in Int] ==
    LET a == Abs(m)
        b == BitLen[a]
    IN  IF b <= MantissaBits THEN Norm[m, e]
        ELSE LET s == b - MantissaBits
                 q == a \div (2 ^ s)
                 r == a % (2 ^ s)
                 half == 2 ^ (s - 1)
                 up == r > half \/ (r = half /\ q % 2 = 1)
             IN  Norm[Sign(m) * (IF up THEN q + 1 ELSE q), e + s]

\* Round the exact value (n / d) * 2^e, n >= 0, d > 0, to MantissaBits
\* significant bits, to nearest, ties to even.
RoundRat[sgn \in Int, n \in Nat, d \in Nat, e \in Int] ==
    IF n = 0 THEN [m |-> 0, e |-> 0]
    ELSE IF n < d * (2 ^ MantissaBits) THEN RoundRat[sgn, 2 * n, d, e - 1]
    ELSE LET s == BitLen[n \div d] - MantissaBits
             dd == d * (2 ^ s)
             q == n \div dd
             r == n % dd
             up == 2 * r > dd \/ (2 * r = dd /\ q % 2 = 1)
         IN  Norm[sgn * (IF up THEN q + 1 ELSE q), e + s]

Zero == [m |-> 0, e |-> 0]

FNeg(x) == [m |-> -x.m, e |-> x.e]

\* x + y
FAdd(x, y) ==
    LET lo == Min(x.e, y.e)
    IN  IF x.m = 0 THEN y
        ELSE IF y.m = 0 THEN x
        ELSE RoundP[x.m * (2 ^ (x.e - lo)) + y.m * (2 ^ (y.e - lo)), lo]

\* x - y
FSub(x, y) == FAdd(x, FNeg(y))

\* x < y
FLt(x, y) ==
    LET lo == Min(x.e, y.e)
    IN  x.m * (2 ^ (x.e - lo)) < y.m * (2 ^ (y.e - lo))

\* x * y
FMul(x, y) == RoundP[x.m * y.m, x.e + y.e]

\* x / y, y nonzero
FDiv(x, y) == RoundRat[Sign(x.m) * Sign(y.m), Abs(x.m), Abs(y.m), x.e - y.e]

\* f64::round: nearest integer, ties away from zero
FRound(x) ==
    IF x.e >= 0 THEN x
    ELSE LET s == -x.e
             a == Abs(x.m)
             q == a \div (2 ^ s)
             r == a % (2 ^ s)
         IN  Norm[Sign(x.m) * (IF 2 * r >= 2 ^ s THEN q + 1 ELSE q), 0]

\* The f64 literal 10_000.0
TenThousand == Norm[10000, 0]

(***************************************************************************)
(* Input rows.  A row that deserialises carries a type, a client id, a tx  *)
(* id and an amount field: a decimal text, given here in units of 10^-5,   *)
(* or the empty field.                                                     *)
(***************************************************************************)
\* client ids (u16 in the source) and transaction ids (u32 in the source)
ClientIds == {1, 2}

TxIds == {1, 2}

Empty == [some |-> FALSE, raw |-> 0]

\* 0.1 and 0.4
RawAmounts == {10000, 40000}

AmountFields == {Empty} \cup {[some |-> TRUE, raw |-> r] : r \in RawAmounts}

TransactionType == {"deposit", "withdrawal", "dispute", "resolve", "chargeback"}

Rows ==
    [type : {"deposit", "withdrawal"}, client : ClientIds, tx : TxIds,
     amount : AmountFields]
    \cup
    [type : {"dispute", "resolve", "chargeback"}, client : ClientIds, tx : TxIds,
     amount : {Empty}]

\* Option<f64>
None == [some |-> FALSE, v |-> Zero]

Some(x) == [some |-> TRUE, v |-> x]

\* str::parse::<f64> of a decimal text: the nearest float
ParseF64(raw) == RoundRat[Sign(raw), Abs(raw), 100000, 0]

round_deserialise(field) ==
    IF field.some
    THEN Some(FDiv(FRound(FMul(ParseF64(field.raw), TenThousand)), TenThousand))
    ELSE None

Transaction(row) ==
    [transaction_type |-> row.type,
     client_id |-> row.client,
     transaction_id |-> row.tx,
     amount |-> round_deserialise(row.amount)]

\* What csv/serde hand to the loop for each row
Deserialised == [row \in Rows |-> Transaction(row)]

(***************************************************************************)
(* TransactionDb                                                           *)
(***************************************************************************)
EmptyDb == << >>

Put(db, k, v) == [x \in DOMAIN db \cup {k} |-> IF x = k THEN v ELSE db[x]]

\* Mutant: every kind of transaction is stored.
insert_transaction_any(db, transaction) ==
    Put(db, transaction.transaction_id, transaction)

\* Mutant: only deposits are stored.
insert_transaction_deposits_only(db, transaction) ==
    IF transaction.transaction_type = "deposit"
    THEN Put(db, transaction.transaction_id, transaction)
    ELSE db

\* Mutant: a tx id that is already stored keeps its first transaction.
insert_transaction_first_wins(db, transaction) ==
    IF /\ transaction.transaction_type \in {"deposit", "withdrawal"}
       /\ transaction.transaction_id \notin DOMAIN db
    THEN Put(db, transaction.transaction_id, transaction)
    ELSE db

insert_transaction(db, transaction) ==
    IF transaction.transaction_type \in {"deposit", "withdrawal"}
    THEN Put(db, transaction.transaction_id, transaction)
    ELSE db

retrieve_transaction_data(db, transaction_id) ==
    IF transaction_id \in DOMAIN db
    THEN [some |-> TRUE, v |-> db[transaction_id]]
    ELSE [some |-> FALSE]

(***************************************************************************)
(* Client                                                                  *)
(***************************************************************************)
Client_new(client_id) ==
    [client_id |-> client_id, available |-> Zero, held |-> Zero,
     total |-> Zero, locked |-> FALSE]

\* Mutant: the deposit is added to available only.
deposit_no_total(self, deposit_amount) ==
    IF deposit_amount.some
    THEN [self EXCEPT !.available = FAdd(self.available, deposit_amount.v)]
    ELSE self

deposit(self, deposit_amount) ==
    IF deposit_amount.some
    THEN [self EXCEPT !.total = FAdd(self.total, deposit_amount.v),
                      !.available = FAdd(self.available, deposit_amount.v)]
    ELSE self

\* Mutant: the withdrawal is checked against total, not against available.
withdrawal_vs_total(self, withdrawal_amount) ==
    IF withdrawal_amount.some /\ FLt(withdrawal_amount.v, self.total)
    THEN [self EXCEPT !.available = FSub(self.available, withdrawal_amount.v),
                      !.total = FSub(self.total, withdrawal_amount.v)]
    ELSE self

\* Mutant: the withdrawal is not checked against available.
withdrawal_unchecked(self, withdrawal_amount) ==
    IF withdrawal_amount.some
    THEN [self EXCEPT !.available = FSub(self.available, withdrawal_amount.v),
                      !.total = FSub(self.total, withdrawal_amount.v)]
    ELSE self

\* Mutant: a withdrawal of the whole available balance is allowed (<=).
withdrawal_le(self, withdrawal_amount) ==
    IF withdrawal_amount.some /\ ~FLt(self.available, withdrawal_amount.v)
    THEN [self EXCEPT !.available = FSub(self.available, withdrawal_amount.v),
                      !.total = FSub(self.total, withdrawal_amount.v)]
    ELSE self

\* Mutant: the withdrawal is taken from available only.
withdrawal_no_total(self, withdrawal_amount) ==
    IF withdrawal_amount.some /\ FLt(withdrawal_amount.v, self.available)
    THEN [self EXCEPT !.available = FSub(self.available, withdrawal_amount.v)]
    ELSE self

withdrawal(self, withdrawal_amount) ==
    IF withdrawal_amount.some /\ FLt(withdrawal_amount.v, self.available)
    THEN [self EXCEPT !.available = FSub(self.available, withdrawal_amount.v),
                      !.total = FSub(self.total, withdrawal_amount.v)]
    ELSE self

\* Mutant: a dispute is applied only by the client of the disputed transaction.
dispute_owner_checked(self, transaction_id, transaction_db) ==
    LET transaction_data == retrieve_transaction_data(transaction_db, transaction_id)
    IN  IF /\ transaction_data.some
           /\ transaction_data.v.amount.some
           /\ transaction_data.v.client_id = self.client_id
        THEN [self EXCEPT !.available = FSub(self.available, transaction_data.v.amount.v),
                          !.held = FAdd(self.held, transaction_data.v.amount.v)]
        ELSE self

\* Mutant: a dispute is applied only when available covers the amount.
dispute_checked(self, transaction_id, transaction_db) ==
    LET transaction_data == retrieve_transaction_data(transaction_db, transaction_id)
    IN  IF /\ transaction_data.some
           /\ transaction_data.v.amount.some
           /\ ~FLt(self.available, transaction_data.v.amount.v)
        THEN [self EXCEPT !.available = FSub(self.available, transaction_data.v.amount.v),
                          !.held = FAdd(self.held, transaction_data.v.amount.v)]
        ELSE self

dispute(self, transaction_id, transaction_db) ==
    LET transaction_data == retrieve_transaction_data(transaction_db, transaction_id)
    IN  IF transaction_data.some /\ transaction_data.v.amount.some
        THEN [self EXCEPT !.available = FSub(self.available, transaction_data.v.amount.v),
                          !.held = FAdd(self.held, transaction_data.v.amount.v)]
        ELSE self

resolve(self, transaction_id, transaction_db) ==
    LET transaction_data == retrieve_transaction_data(transaction_db, transaction_id)
    IN  IF transaction_data.some /\ transaction_data.v.amount.some
        THEN [self EXCEPT !.available = FAdd(self.available, transaction_data.v.amount.v),
                          !.held = FSub(self.held, transaction_data.v.amount.v)]
        ELSE self

\* Mutant: a chargeback of a stored transaction locks the account even
\* when the stored amount is absent.
chargeback_absent_locks(self, transaction_id, transaction_db) ==
    LET transaction_data == retrieve_transaction_data(transaction_db, transaction_id)
    IN  IF transaction_data.some /\ transaction_data.v.amount.some
        THEN [self EXCEPT !.held = FSub(self.held, transaction_data.v.amount.v),
                          !.total = FSub(self.total, transaction_data.v.amount.v),
                          !.locked = TRUE]
        ELSE IF transaction_data.some
        THEN [self EXCEPT !.locked = TRUE]
        ELSE self

\* Mutant: a chargeback is applied only when held covers the amount.
chargeback_needs_held(self, transaction_id, transaction_db) ==
    LET transaction_data == retrieve_transaction_data(transaction_db, transaction_id)
    IN  IF /\ transaction_data.some
           /\ transaction_data.v.amount.some
           /\ ~FLt(self.held, transaction_data.v.amount.v)
        THEN [self EXCEPT !.held = FSub(self.held, transaction_data.v.amount.v),
                          !.total = FSub(self.total, transaction_data.v.amount.v),
                          !.locked = TRUE]
        ELSE self

\* Mutant: the chargeback does not lock the account.
chargeback_no_lock(self, transaction_id, transaction_db) ==
    LET transaction_data == retrieve_transaction_data(transaction_db, transaction_id)
    IN  IF transaction_data.some /\ transaction_data.v.amount.some
        THEN [self EXCEPT !.held = FSub(self.held, transaction_data.v.amount.v),
                          !.total = FSub(self.total, transaction_data.v.amount.v)]
        ELSE self

chargeback(self, transaction_id, transaction_db) ==
    LET transaction_data == retrieve_transaction_data(transaction_db, transaction_id)
    IN  IF transaction_data.some /\ transaction_data.v.amount.some
        THEN [self EXCEPT !.held = FSub(self.held, transaction_data.v.amount.v),
                          !.total = FSub(self.total, transaction_data.v.amount.v),
                          !.locked = TRUE]
        ELSE self

\* Mutant: a resolve addressed to a locked account unlocks it.
apply_transaction_to_client_unlocking(self, transaction, transaction_db) ==
    IF self.locked
    THEN IF transaction.transaction_type = "resolve"
         THEN [self EXCEPT !.locked = FALSE]
         ELSE self
    ELSE CASE transaction.transaction_type = "deposit" ->
                deposit(self, transaction.amount)
           [] transaction.transaction_type = "withdrawal" ->
                withdrawal(self, transaction.amount)
           [] transaction.transaction_type = "dispute" ->
                dispute(self, transaction.transaction_id, transaction_db)
           [] transaction.transaction_type = "resolve" ->
                resolve(self, transaction.transaction_id, transaction_db)
           [] transaction.transaction_type = "chargeback" ->
                chargeback(self, transaction.transaction_id, transaction_db)

\* Mutant: the early return on a locked account is missing.
apply_transaction_to_client_no_gate(self, transaction, transaction_db) ==
    CASE transaction.transaction_type = "deposit" ->
            deposit(self, transaction.amount)
      [] transaction.transaction_type = "withdrawal" ->
            withdrawal(self, transaction.amount)
      [] transaction.transaction_type = "dispute" ->
            dispute(self, transaction.transaction_id, transaction_db)
      [] transaction.transaction_type = "resolve" ->
            resolve(self, transaction.transaction_id, transaction_db)
      [] transaction.transaction_type = "chargeback" ->
            chargeback(self, transaction.transaction_id, transaction_db)

apply_transaction_to_client(self, transaction, transaction_db) ==
    IF self.locked THEN self
    ELSE CASE transaction.transaction_type = "deposit" ->
                deposit(self, transaction.amount)
           [] transaction.transaction_type = "withdrawal" ->
                withdrawal(self, transaction.amount)
           [] transaction.transaction_type = "dispute" ->
                dispute(self, transaction.transaction_id, transaction_db)
           [] transaction.transaction_type = "resolve" ->
                resolve(self, transaction.transaction_id, transaction_db)
           [] transaction.transaction_type = "chargeback" ->
                chargeback(self, transaction.transaction_id, transaction_db)

(***************************************************************************)
(* ClientDb                                                                *)
(***************************************************************************)
\* Mutant: every account is stored under the key 1.
insert_client_record_first_slot(db, client_record) ==
    Put(db, 1, client_record)

insert_client_record(db, client_record) ==
    Put(db, client_record.client_id, client_record)

get_client_record(db, client_id) ==
    IF client_id \in DOMAIN db
    THEN [some |-> TRUE, v |-> db[client_id]]
    ELSE [some |-> FALSE]

round_serialize(x) == FDiv(FRound(FMul(x, TenThousand)), TenThousand)

to_csv_stdout(db) ==
    {[client |-> db[c].client_id,
      available |-> round_serialize(db[c].available),
      held |-> round_serialize(db[c].held),
      total |-> round_serialize(db[c].total),
      locked |-> db[c].locked] : c \in DOMAIN db}

\* Mutant: the row is applied to every account of the registry.
handle_transaction_all_clients(self, transaction_db, db) ==
    LET with == IF self.client_id \in DOMAIN db THEN db
                ELSE insert_client_record(db, Client_new(self.client_id))
    IN  [c \in DOMAIN with |->
            apply_transaction_to_client(with[c], self, transaction_db)]

\* Mutant: the account created for an unseen client is not stored.
handle_transaction_no_insert(self, transaction_db, db) ==
    LET client_record == get_client_record(db, self.client_id)
    IN  IF client_record.some
        THEN [db EXCEPT ![self.client_id] =
                 apply_transaction_to_client(client_record.v, self, transaction_db)]
        ELSE db

handle_transaction(self, transaction_db, db) ==
    LET client_record == get_client_record(db, self.client_id)
    IN  IF client_record.some
        THEN [db EXCEPT ![self.client_id] =
                 apply_transaction_to_client(client_record.v, self, transaction_db)]
        ELSE insert_client_record(db,
                 apply_transaction_to_client(Client_new(self.client_id), self,
                                             transaction_db))

(***************************************************************************)
(* The run: main, apply_transactions.                                      *)
(***************************************************************************)
VARIABLES
    client_db,        \* ClientDb.db: client id -> Client
    transaction_db,   \* TransactionDb.db: tx id -> Transaction
    pc,               \* "running" | "error" (exit 1) | "done" (accounts written)
    processed,        \* rows handled so far
    output,           \* what to_csv_stdout wrote
    hist,             \* history: <<the row the loop has just handled, with the
                      \* state it found>>; << >> before the first row and
                      \* once the loop is left
    file              \* the rows of the input file when the run is given one
                      \* in full (SpecFile); << >> when the rows are drawn as
                      \* they are read (Spec)

vars == <<client_db, transaction_db, pc, processed, output, hist, file>>

Init ==
    /\ client_db = EmptyDb
    /\ transaction_db = EmptyDb
    /\ pc = "running"
    /\ processed = 0
    /\ output = {}
    /\ hist = << >>
    /\ file = << >>

\* Mutant: a row is recorded only when it changed the accounts.
ProcessRow_record_if_applied(row) ==
    LET transaction == Deserialised[row]
        applied == handle_transaction(transaction, transaction_db, client_db)
    IN  /\ pc = "running"
        /\ processed < MaxRecords
        /\ client_db' = applied
        /\ transaction_db' =
              IF /\ transaction.client_id \in DOMAIN client_db
                 /\ applied = client_db
              THEN transaction_db
              ELSE insert_transaction(transaction_db, transaction)
        /\ processed' = processed + 1
        /\ hist' = <<[tx |-> transaction, clients |-> client_db,
                       ledger |-> transaction_db]>>
        /\ UNCHANGED <<pc, output, file>>

\* One iteration of the loop of apply_transactions on a row that deserialises.
ProcessRow(row) ==
    LET transaction == Deserialised[row]
    IN  /\ pc = "running"
        /\ processed < MaxRecords
        /\ client_db' = handle_transaction(transaction, transaction_db, client_db)
        /\ transaction_db' = insert_transaction(transaction_db, transaction)
        /\ processed' = processed + 1
        /\ hist' = <<[tx |-> transaction, clients |-> client_db,
                       ledger |-> transaction_db]>>
        /\ UNCHANGED <<pc, output, file>>

\* The next row fails to deserialise: apply_transactions returns the error
\* and main exits with status 1 before writing anything.
BadRow ==
    /\ pc = "running"
    /\ processed < MaxRecords
    /\ pc' = "error"
    /\ hist' = << >>
    /\ UNCHANGED <<client_db, transaction_db, processed, output, file>>

\* The input ends: apply_transactions returns Ok and main writes the accounts.
EndOfInput ==
    /\ pc = "running"
    /\ output' = to_csv_stdout(client_db)
    /\ pc' = "done"
    /\ hist' = << >>
    /\ UNCHANGED <<client_db, transaction_db, processed, file>>

Next ==
    \/ \E row \in Rows : ProcessRow(row)
    \/ BadRow
    \/ EndOfInput

Spec == Init /\ [][Next]_vars

(***************************************************************************)
(* The run on an input file given in full.  The rows of a file: the four   *)
(* rows of the end-to-end example of the documentation, a withdrawal that  *)
(* reuses tx id 1, a resolve and a chargeback of tx 1, and a row that does *)
(* not deserialise.                                                        *)
(***************************************************************************)
Row(type, client, tx, amount) ==
    [type |-> type, client |-> client, tx |-> tx, amount |-> amount]

Raw(r) == [some |-> TRUE, raw |-> r]

\* deposit,1,1,100.0 ; deposit,2,2,50.0 ; dispute,1,1, ; withdrawal,1,3,50.0
EndToEnd ==
    <<Row("deposit", 1, 1, Raw(10000000)),
      Row("deposit", 2, 2, Raw(5000000)),
      Row("dispute", 1, 1, Empty),
      Row("withdrawal", 1, 3, Raw(5000000))>>

\* withdrawal,2,1,50.0
Reuse == Row("withdrawal", 2, 1, Raw(5000000))

\* resolve,1,1,
ResolveRow == Row("resolve", 1, 1, Empty)

\* chargeback,1,1,
ChargebackRow == Row("chargeback", 1, 1, Empty)

\* A row whose type is none of the five: it does not deserialise.
Malformed == Row("transfer", 1, 1, Empty)

WellFormed(row) == row.type \in TransactionType

FileRows ==
    {EndToEnd[i] : i \in 1..4} \cup {Reuse, ResolveRow, ChargebackRow, Malformed}

\* Amount columns for the rounding of amounts: the decimal texts 0.14100 to
\* 0.14299, and 10.00001.
RoundInputs == (14100..14299) \cup {1000001}

\* deposit,1,1,<amount> and withdrawal,1,1,<amount>
RoundRows ==
    {Row(type, 1, 1, Raw(r)) : type \in {"deposit", "withdrawal"}, r \in RoundInputs}

\* Amount columns with a sign: -0.4 and 0.1
SignedAmounts == {-40000, 10000}

\* Rows of client 1: deposits and withdrawals of a signed amount, disputes
\* and resolves.
SignedRows ==
    {Row(type, 1, tx, Raw(r)) :
        type \in {"deposit", "withdrawal"}, tx \in TxIds, r \in SignedAmounts}
    \cup
    {Row(type, 1, tx, Empty) : type \in {"dispute", "resolve"}, tx \in TxIds}

\* What csv/serde hand to the loop for each row of a file that deserialises
DeserialisedFile ==
    [row \in {r \in FileRows \cup RoundRows \cup SignedRows : WellFormed(r)}
        |-> Transaction(row)]

Files == UNION {[1..n -> FileRows] : n \in 0..MaxFileLen}

InitFile ==
    /\ client_db = EmptyDb
    /\ transaction_db = EmptyDb
    /\ pc = "running"
    /\ processed = 0
    /\ output = {}
    /\ hist = << >>
    /\ file \in Files

\* Mutant: the rows of the file are handled from the last to the first.
FileRow_reversed ==
    /\ pc = "running"
    /\ processed < Len(file)
    /\ WellFormed(file[Len(file) - processed])
    /\ LET transaction == Transaction(file[Len(file) - processed])
       IN  /\ client_db' = handle_transaction(transaction, transaction_db, client_db)
           /\ transaction_db' = insert_transaction(transaction_db, transaction)
           /\ hist' = <<[tx |-> transaction, clients |-> client_db,
                          ledger |-> transaction_db]>>
    /\ processed' = processed + 1
    /\ UNCHANGED <<pc, output, file>>

\* Mutant: a withdrawal that leaves the account as it was ends the run with
\* the error.
FileRow_rejecting ==
    /\ pc = "running"
    /\ processed < Len(file)
    /\ WellFormed(file[processed + 1])
    /\ LET transaction == DeserialisedFile[file[processed + 1]]
       IN  IF /\ transaction.transaction_type = "withdrawal"
              /\ transaction.client_id \in DOMAIN client_db
              /\ handle_transaction(transaction, transaction_db, client_db) = client_db
           THEN /\ pc' = "error"
                /\ hist' = << >>
                /\ UNCHANGED <<client_db, transaction_db, processed, output, file>>
           ELSE /\ client_db' = handle_transaction(transaction, transaction_db, client_db)
                /\ transaction_db' = insert_transaction(transaction_db, transaction)
                /\ hist' = <<[tx |-> transaction, clients |-> client_db,
                               ledger |-> transaction_db]>>
                /\ processed' = processed + 1
                /\ UNCHANGED <<pc, output, file>>

\* One iteration of the loop of apply_transactions: the next row of the
\* file deserialises.
FileRow ==
    /\ pc = "running"
    /\ processed < Len(file)
    /\ WellFormed(file[processed + 1])
    /\ LET transaction == DeserialisedFile[file[processed + 1]]
       IN  /\ client_db' = handle_transaction(transaction, transaction_db, client_db)
           /\ transaction_db' = insert_transaction(transaction_db, transaction)
           /\ hist' = <<[tx |-> transaction, clients |-> client_db,
                          ledger |-> transaction_db]>>
    /\ processed' = processed + 1
    /\ UNCHANGED <<pc, output, file>>

\* Mutant: a row that fails to deserialise is skipped.
FileBadRow_skip ==
    /\ pc = "running"
    /\ processed < Len(file)
    /\ ~WellFormed(file[processed + 1])
    /\ processed' = processed + 1
    /\ hist' = << >>
    /\ UNCHANGED <<client_db, transaction_db, pc, output, file>>

\* The next row of the file fails to deserialise: apply_transactions
\* returns the error and main exits with status 1 before writing anything.
FileBadRow ==
    /\ pc = "running"
    /\ processed < Len(file)
    /\ ~WellFormed(file[processed + 1])
    /\ pc' = "error"
    /\ hist' = << >>
    /\ UNCHANGED <<client_db, transaction_db, processed, output, file>>

\* The file is exhausted: apply_transactions returns Ok and main writes the
\* accounts.
FileEnd ==
    /\ pc = "running"
    /\ processed = Len(file)
    /\ output' = to_csv_stdout(client_db)
    /\ pc' = "done"
    /\ hist' = << >>
    /\ UNCHANGED <<client_db, transaction_db, processed, file>>

NextFile ==
    \/ FileRow
    \/ FileBadRow
    \/ FileEnd

SpecFile == InitFile /\ [][NextFile]_vars

(***************************************************************************)
(* The run on a file of one deposit or withdrawal: the amount goes through *)
(* round_deserialise when the row is read and the balance through          *)
(* round_serialize when the accounts are written.                          *)
(***************************************************************************)
InitRound ==
    /\ client_db = EmptyDb
    /\ transaction_db = EmptyDb
    /\ pc = "running"
    /\ processed = 0
    /\ output = {}
    /\ hist = << >>
    /\ file \in {<<row>> : row \in RoundRows}

NextRound ==
    \/ FileRow
    \/ FileEnd

SpecRound == InitRound /\ [][NextRound]_vars

(***************************************************************************)
(* The run on a file of rows with signed amounts, all of which             *)
(* deserialise: the amount column is any decimal, negative ones included.  *)
(***************************************************************************)
InitSigned ==
    /\ client_db = EmptyDb
    /\ transaction_db = EmptyDb
    /\ pc = "running"
    /\ processed = 0
    /\ output = {}
    /\ hist = << >>
    /\ file \in UNION {[1..n -> SignedRows] : n \in 0..MaxSignedLen}

SpecSigned == InitSigned /\ [][NextRound]_vars

\* The loop is sequential code that runs to its end: a step that can be
\* taken is taken.
SpecFileFair == SpecFile /\ WF_vars(NextFile)

(***************************************************************************)
(* The step recorded in hist.                                              *)
(***************************************************************************)
HasLast == Len(hist) = 1

LastTx == hist[1].tx

LastClient == LastTx.client_id

\* The client of the last row had an account when the row arrived.
Known == LastClient \in DOMAIN hist[1].clients

\* The account the last row was applied to, and what it has become.
Before == IF Known THEN hist[1].clients[LastClient] ELSE Client_new(LastClient)

After == client_db[LastClient]

\* The ledger entry the last row names holds an amount.
OrigFound ==
    /\ LastTx.transaction_id \in DOMAIN hist[1].ledger
    /\ hist[1].ledger[LastTx.transaction_id].amount.some

OrigAmount == hist[1].ledger[LastTx.transaction_id].amount.v

SameBalances(a, b) ==
    /\ a.available = b.available
    /\ a.held = b.held
    /\ a.total = b.total
    /\ a.locked = b.locked

DisputeFamily == {"dispute", "resolve", "chargeback"}

(***************************************************************************)
(* C1.  Once an account is locked, a later row of any kind addressed to    *)
(* that client leaves its available, held, total and locked unchanged.     *)
(***************************************************************************)
C1_LockedAccountUnchanged ==
    (HasLast /\ Known /\ Before.locked) => SameBalances(After, Before)

\* A deposit with an amount has arrived on a locked account.
C1_Witness ==
    /\ HasLast /\ Known /\ Before.locked
    /\ LastTx.transaction_type = "deposit"
    /\ LastTx.amount.some
    /\ LastTx.amount.v # Zero

(***************************************************************************)
(* C2.  In every reachable state every account has                         *)
(* total == available + held.                                              *)
(***************************************************************************)
C2_TotalIsAvailablePlusHeld ==
    \A c \in DOMAIN client_db :
        client_db[c].total = FAdd(client_db[c].available, client_db[c].held)

(***************************************************************************)
(* C3.  A withdrawal of amt >= available on an unlocked account leaves     *)
(* available, held, total and locked unchanged; amt == available included. *)
(***************************************************************************)
C3_Case ==
    /\ HasLast
    /\ LastTx.transaction_type = "withdrawal"
    /\ LastTx.amount.some
    /\ ~Before.locked
    /\ ~FLt(LastTx.amount.v, Before.available)

C3_WithdrawalRejected == C3_Case => SameBalances(After, Before)

\* The boundary: the whole (nonzero) available balance is asked for.
C3_Witness ==
    /\ C3_Case
    /\ LastTx.amount.v = Before.available
    /\ Before.available # Zero

(***************************************************************************)
(* C4.  A withdrawal of amt < available on an unlocked account decreases   *)
(* available and total by amt and leaves held and locked unchanged.        *)
(***************************************************************************)
C4_Case ==
    /\ HasLast
    /\ LastTx.transaction_type = "withdrawal"
    /\ LastTx.amount.some
    /\ ~Before.locked
    /\ FLt(LastTx.amount.v, Before.available)

C4_WithdrawalApplied ==
    C4_Case =>
        /\ After.available = FSub(Before.available, LastTx.amount.v)
        /\ After.total = FSub(Before.total, LastTx.amount.v)
        /\ After.held = Before.held
        /\ After.locked = Before.locked

C4_Witness ==
    /\ C4_Case
    /\ After.available # Before.available
    /\ After.total # Before.total

(***************************************************************************)
(* C5.  A deposit of amt on an unlocked account increases available and    *)
(* total by amt and leaves held and locked unchanged; on a fresh account   *)
(* the result is available == amt and total == amt.                        *)
(***************************************************************************)
C5_Case ==
    /\ HasLast
    /\ LastTx.transaction_type = "deposit"
    /\ LastTx.amount.some
    /\ ~Before.locked

C5_DepositApplied ==
    C5_Case =>
        /\ After.available = FAdd(Before.available, LastTx.amount.v)
        /\ After.total = FAdd(Before.total, LastTx.amount.v)
        /\ After.held = Before.held
        /\ After.locked = Before.locked
        /\ (Before.available = Zero /\ Before.held = Zero /\ Before.total = Zero)
              => (After.available = LastTx.amount.v /\ After.total = LastTx.amount.v)

\* A deposit on an account that did not exist before it.
C5_Witness ==
    /\ C5_Case
    /\ ~Known
    /\ After.total = LastTx.amount.v
    /\ After.total # Zero

(***************************************************************************)
(* C6.  A dispute on an unlocked account whose tx id is in the ledger      *)
(* with an amount decreases available by it, increases held by it, leaves  *)
(* total and locked unchanged, whatever available is (it may go negative). *)
(***************************************************************************)
C6_Case ==
    /\ HasLast
    /\ LastTx.transaction_type = "dispute"
    /\ ~Before.locked
    /\ OrigFound

C6_DisputeApplied ==
    C6_Case =>
        /\ After.available = FSub(Before.available, OrigAmount)
        /\ After.held = FAdd(Before.held, OrigAmount)
        /\ After.total = Before.total
        /\ After.locked = Before.locked

\* The disputed amount exceeded available, which is now negative.
C6_Witness ==
    /\ C6_Case
    /\ FLt(Before.available, OrigAmount)
    /\ FLt(After.available, Zero)

(***************************************************************************)
(* C7.  A dispute of a recorded tx id on an unlocked account, immediately  *)
(* followed by a resolve with the same tx id, restores available, held     *)
(* and total to their values before the dispute and leaves locked false.   *)
(* Stated in the state the dispute has produced, of the resolve row that   *)
(* is handled next.                                                        *)
(***************************************************************************)
C7_ResolveRow == [LastTx EXCEPT !.transaction_type = "resolve"]

C7_AfterResolve ==
    handle_transaction(C7_ResolveRow, transaction_db, client_db)[LastClient]

C7_DisputeResolveRoundTrip ==
    C6_Case =>
        /\ C7_AfterResolve.available = Before.available
        /\ C7_AfterResolve.held = Before.held
        /\ C7_AfterResolve.total = Before.total
        /\ C7_AfterResolve.locked = FALSE

(***************************************************************************)
(* C8.  A chargeback on an unlocked account whose tx id is in the ledger   *)
(* with an amount decreases held and total by it, leaves available         *)
(* unchanged and locks the account.                                        *)
(***************************************************************************)
C8_Case ==
    /\ HasLast
    /\ LastTx.transaction_type = "chargeback"
    /\ ~Before.locked
    /\ OrigFound

C8_ChargebackApplied ==
    C8_Case =>
        /\ After.held = FSub(Before.held, OrigAmount)
        /\ After.total = FSub(Before.total, OrigAmount)
        /\ After.available = Before.available
        /\ After.locked = TRUE

\* A chargeback of a disputed deposit.
C8_Witness ==
    /\ C8_Case
    /\ Before.held = OrigAmount
    /\ OrigAmount # Zero
    /\ After.held = Zero
    /\ After.locked

(***************************************************************************)
(* C9.  A dispute, resolve or chargeback whose tx id is not in the ledger  *)
(* when it is applied is a no-op: the account's available, held, total     *)
(* and locked are unchanged and so is the ledger.                          *)
(***************************************************************************)
C9_Case ==
    /\ HasLast
    /\ LastTx.transaction_type \in DisputeFamily
    /\ LastTx.transaction_id \notin DOMAIN hist[1].ledger

C9_UnknownTxIsNoOp ==
    C9_Case =>
        /\ SameBalances(After, Before)
        /\ transaction_db = hist[1].ledger

\* A chargeback of an unknown tx id on an account that holds funds, while
\* the ledger knows another tx id.
C9_Witness ==
    /\ C9_Case
    /\ LastTx.transaction_type = "chargeback"
    /\ Known
    /\ Before.available # Zero
    /\ transaction_db # EmptyDb
    /\ ~After.locked

(***************************************************************************)
(* C10.  A row of any kind that names a client without an account creates  *)
(* a zero, unlocked account, applies the row to it and stores it, also     *)
(* when the row itself is ignored.                                         *)
(***************************************************************************)
C10_UnseenClientCreated ==
    (HasLast /\ ~Known) =>
        /\ DOMAIN client_db = DOMAIN hist[1].clients \cup {LastClient}
        /\ After.client_id = LastClient
        /\ After = apply_transaction_to_client(
                       [client_id |-> LastClient, available |-> Zero, held |-> Zero,
                        total |-> Zero, locked |-> FALSE],
                       LastTx, hist[1].ledger)
        /\ (LastTx.transaction_type \in DisputeFamily /\ ~OrigFound)
              => (/\ After.available = Zero
                  /\ After.held = Zero
                  /\ After.total = Zero
                  /\ After.locked = FALSE)

\* An ignored row (a dispute of an unknown tx id) names an unseen client.
C10_Witness ==
    /\ HasLast /\ ~Known
    /\ LastTx.transaction_type = "dispute"
    /\ ~OrigFound
    /\ LastClient \in DOMAIN client_db
    /\ After.available = Zero /\ After.total = Zero /\ ~After.locked

(***************************************************************************)
(* C11.  Replaying deposit,1,1,100 ; deposit,2,2,50 ; dispute,1,1 ;        *)
(* withdrawal,1,3,50 from empty registries ends with exactly two accounts: *)
(* client 1 with available 0, held 100, total 100, unlocked, and client 2  *)
(* with available 50, held 0, total 50, unlocked.                          *)
(***************************************************************************)
Hundred == ParseF64(10000000)

Fifty == ParseF64(5000000)

C11_Expected ==
    (1 :> [client_id |-> 1, available |-> Zero, held |-> Hundred,
           total |-> Hundred, locked |-> FALSE])
    @@
    (2 :> [client_id |-> 2, available |-> Fifty, held |-> Zero,
           total |-> Fifty, locked |-> FALSE])

C11_ExpectedOutput ==
    {[client |-> 1, available |-> Zero, held |-> Hundred, total |-> Hundred,
      locked |-> FALSE],
     [client |-> 2, available |-> Fifty, held |-> Zero, total |-> Fifty,
      locked |-> FALSE]}

C11_EndToEnd ==
    (file = EndToEnd /\ pc = "done") =>
        /\ client_db = C11_Expected
        /\ output = C11_ExpectedOutput

C11_Witness ==
    /\ file = EndToEnd
    /\ pc = "done"
    /\ processed = 4
    /\ DOMAIN client_db = {1, 2}

(***************************************************************************)
(* C12.  The ledger stores a row if and only if it is a deposit or a       *)
(* withdrawal: every entry of the ledger is a deposit or a withdrawal kept *)
(* under its own tx id, a deposit or withdrawal row is in the ledger once  *)
(* handled, a dispute, resolve or chargeback row leaves the ledger as it   *)
(* was, and no row removes an entry.                                       *)
(***************************************************************************)
C12_LedgerHoldsDepositsAndWithdrawals ==
    /\ \A id \in DOMAIN transaction_db :
          /\ transaction_db[id].transaction_type \in {"deposit", "withdrawal"}
          /\ transaction_db[id].transaction_id = id
    /\ HasLast =>
          /\ DOMAIN hist[1].ledger \subseteq DOMAIN transaction_db
          /\ IF LastTx.transaction_type \in {"deposit", "withdrawal"}
             THEN /\ LastTx.transaction_id \in DOMAIN transaction_db
                  /\ transaction_db[LastTx.transaction_id] = LastTx
                  /\ \A id \in DOMAIN hist[1].ledger \ {LastTx.transaction_id} :
                        transaction_db[id] = hist[1].ledger[id]
             ELSE transaction_db = hist[1].ledger

\* The ledger holds a deposit and a withdrawal, and a dispute has just been
\* handled.
C12_Witness ==
    /\ HasLast
    /\ LastTx.transaction_type = "dispute"
    /\ DOMAIN transaction_db = {1, 2}
    /\ {transaction_db[id].transaction_type : id \in DOMAIN transaction_db}
          = {"deposit", "withdrawal"}

(***************************************************************************)
(* What a prefix of the input file amounts to, stated from the file alone. *)
(***************************************************************************)
\* Positions among the first n rows whose row is a deposit or a withdrawal
\* with tx id `id`.
Recorded(f, n, id) ==
    {i \in 1..n : f[i].type \in {"deposit", "withdrawal"} /\ f[i].tx = id}

\* The last of them.
LastRecorded(f, n, id) ==
    CHOOSE i \in Recorded(f, n, id) : \A j \in Recorded(f, n, id) : j <= i

\* The ledger that reflects exactly the deposit and withdrawal rows among
\* the first n rows: each tx id with the last such row that carries it.
LedgerAt(f, n) ==
    [id \in {f[i].tx : i \in {j \in 1..n : f[j].type \in {"deposit", "withdrawal"}}}
        |-> Transaction(f[LastRecorded(f, n, id)])]

\* The accounts once the first n rows have been applied in order, each
\* against the ledger of the rows before it.
RECURSIVE ClientsAt(_, _)
ClientsAt(f, n) ==
    IF n = 0 THEN EmptyDb
    ELSE LET transaction == Transaction(f[n])
             before == ClientsAt(f, n - 1)
             c == transaction.client_id
         IN  Put(before, c,
                 apply_transaction_to_client(
                     IF c \in DOMAIN before THEN before[c] ELSE Client_new(c),
                     transaction, LedgerAt(f, n - 1)))

AllWellFormed == \A i \in 1..Len(file) : WellFormed(file[i])

(***************************************************************************)
(* C13.  Rows are handled strictly in the order of the input, and a row is *)
(* applied to its account before it is recorded: the row just handled is   *)
(* the one at position `processed`, it was applied against the ledger of   *)
(* exactly the deposit and withdrawal rows at the positions before it, and *)
(* the ledger holds it only afterwards.  So a dispute, resolve or          *)
(* chargeback that precedes every deposit or withdrawal with its tx id     *)
(* leaves the balances and the lock as they were.                          *)
(***************************************************************************)
C13_InputOrderApplyThenRecord ==
    HasLast =>
        /\ processed \in 1..Len(file)
        /\ LastTx = Transaction(file[processed])
        /\ hist[1].clients = ClientsAt(file, processed - 1)
        /\ hist[1].ledger = LedgerAt(file, processed - 1)
        /\ After = apply_transaction_to_client(Before, LastTx,
                                               LedgerAt(file, processed - 1))
        /\ transaction_db = LedgerAt(file, processed)
        /\ (/\ LastTx.transaction_type \in DisputeFamily
            /\ Recorded(file, processed - 1, LastTx.transaction_id) = {})
              => SameBalances(After, Before)

\* The dispute of tx 1 has been handled, after a deposit of another tx id
\* and before the deposit that carries tx 1, which is the next row.
C13_Witness ==
    /\ HasLast
    /\ LastTx.transaction_type = "dispute"
    /\ processed = 2
    /\ Len(file) >= 3
    /\ file[1] = EndToEnd[2]
    /\ file[3] = EndToEnd[1]
    /\ Recorded(file, processed - 1, 1) = {}
    /\ DOMAIN transaction_db = {2}
    /\ After.available = Zero
    /\ After.held = Zero

(***************************************************************************)
(* C14.  When the row at position k fails to deserialise the run stops     *)
(* there: the rows before k have been applied and recorded and stay so,    *)
(* no row at or after k is applied, and nothing is written.  The accounts  *)
(* are written only when every row of the file deserialised.               *)
(***************************************************************************)
C14_ParseFailureStopsRun ==
    /\ \A i \in 1..processed : WellFormed(file[i])
    /\ pc = "error" =>
          /\ processed < Len(file)
          /\ ~WellFormed(file[processed + 1])
          /\ client_db = ClientsAt(file, processed)
          /\ transaction_db = LedgerAt(file, processed)
          /\ output = {}
    /\ pc = "done" => AllWellFormed

\* The third row fails; two rows were applied and recorded before it and a
\* deposit follows it.
C14_Witness ==
    /\ pc = "error"
    /\ processed = 2
    /\ Len(file) = 4
    /\ file[4] = EndToEnd[1]
    /\ DOMAIN transaction_db = {1, 2}
    /\ DOMAIN client_db = {1, 2}
    /\ client_db[2].available = Fifty

(***************************************************************************)
(* C15.  On a file whose rows all deserialise the run ends with success    *)
(* once every row has been handled, one row per step: no row, whatever it  *)
(* does or fails to do to an account, ends the run with an error.          *)
(***************************************************************************)
C15_WellFormedInputTerminates ==
    /\ [](AllWellFormed => pc # "error")
    /\ [][pc = "running" /\ processed' \in {processed, processed + 1}]_vars
    /\ (AllWellFormed /\ pc = "running")
          ~> (pc = "done" /\ processed = Len(file))

\* The run has ended with success on a file that begins with a withdrawal
\* from an account that has nothing and goes on with a resolve and a
\* chargeback of a tx id that was never stored.
C15_Witness ==
    /\ pc = "done"
    /\ AllWellFormed
    /\ Len(file) = 3
    /\ processed = 3
    /\ file[1] = EndToEnd[4]
    /\ file[2] = ResolveRow
    /\ file[3] = ChargebackRow
    /\ transaction_db[3].transaction_type = "withdrawal"
    /\ client_db[1].total = Zero
    /\ ~client_db[1].locked

(***************************************************************************)
(* C16.  The registry holds exactly the clients named by the rows handled  *)
(* so far, one account each, kept under its own id; no account is removed; *)
(* the output has one record per client of the registry.                   *)
(***************************************************************************)
C16_OneAccountPerReferencedClient ==
    /\ DOMAIN client_db = {file[i].client : i \in 1..processed}
    /\ \A c \in DOMAIN client_db : client_db[c].client_id = c
    /\ HasLast => DOMAIN hist[1].clients \subseteq DOMAIN client_db
    /\ pc = "done" =>
          /\ {r.client : r \in output} = DOMAIN client_db
          /\ Cardinality(output) = Cardinality(DOMAIN client_db)
    /\ pc # "done" => output = {}

\* Two clients, the first of them named only by a dispute of an unknown tx.
C16_Witness ==
    /\ pc = "done"
    /\ Len(file) = 2
    /\ file[1] = EndToEnd[3]
    /\ file[2] = EndToEnd[2]
    /\ DOMAIN client_db = {1, 2}
    /\ Cardinality(output) = 2

(***************************************************************************)
(* What a dispute, resolve or chargeback of amount amt does to an account. *)
(***************************************************************************)
FamilyEffect(type, before, after, amt) ==
    CASE type = "dispute" ->
            /\ after.available = FSub(before.available, amt)
            /\ after.held = FAdd(before.held, amt)
            /\ after.total = before.total
            /\ after.locked = before.locked
      [] type = "resolve" ->
            /\ after.available = FAdd(before.available, amt)
            /\ after.held = FSub(before.held, amt)
            /\ after.total = before.total
            /\ after.locked = before.locked
      [] type = "chargeback" ->
            /\ after.available = before.available
            /\ after.held = FSub(before.held, amt)
            /\ after.total = FSub(before.total, amt)
            /\ after.locked

\* The amount of the last deposit or withdrawal with the tx id of the row
\* just handled, among the rows before it.
LatestAmount ==
    Transaction(file[LastRecorded(file, processed - 1, LastTx.transaction_id)]).amount.v

(***************************************************************************)
(* C17.  When a tx id is carried by several deposit or withdrawal rows the *)
(* ledger keeps the last of them, and a later dispute, resolve or          *)
(* chargeback of that tx id moves the amount of that last row.             *)
(***************************************************************************)
C17_Case ==
    /\ HasLast
    /\ LastTx.transaction_type \in DisputeFamily
    /\ Cardinality(Recorded(file, processed - 1, LastTx.transaction_id)) >= 2
    /\ ~Before.locked

C17_DuplicateTxLastWriteWins ==
    /\ \A id \in DOMAIN transaction_db :
          /\ Recorded(file, processed, id) # {}
          /\ transaction_db[id] = Transaction(file[LastRecorded(file, processed, id)])
    /\ C17_Case =>
          FamilyEffect(LastTx.transaction_type, Before, After, LatestAmount)

\* deposit,1,1,100 ; withdrawal,2,1,50 ; dispute,1,1 : the dispute holds 50.
C17_Witness ==
    /\ C17_Case
    /\ processed = 3
    /\ file[1] = EndToEnd[1]
    /\ file[2] = Reuse
    /\ LastTx.transaction_type = "dispute"
    /\ transaction_db[1].client_id = 2
    /\ After.available = Fifty
    /\ After.held = Fifty
    /\ After.total = Hundred

(***************************************************************************)
(* C18.  No dispute state is kept per transaction.  A dispute of a tx id   *)
(* that was already disputed holds the amount again; a resolve or a        *)
(* chargeback of a tx id that no row has disputed is applied all the same: *)
(* the chargeback locks the account, and held, from which the amount is    *)
(* taken, goes below zero when nothing was held.                           *)
(***************************************************************************)
\* Positions, before the row just handled, of the disputes of its tx id
\* that found the tx id in the ledger.
EarlierDisputes ==
    {i \in 1..(processed - 1) :
        /\ file[i].type = "dispute"
        /\ file[i].tx = LastTx.transaction_id
        /\ Recorded(file, i - 1, file[i].tx) # {}}

C18_Case ==
    /\ HasLast
    /\ LastTx.transaction_type \in DisputeFamily
    /\ Recorded(file, processed - 1, LastTx.transaction_id) # {}
    /\ ~Before.locked
    /\ \/ LastTx.transaction_type = "dispute" /\ EarlierDisputes # {}
       \/ LastTx.transaction_type # "dispute" /\ EarlierDisputes = {}

C18_NoDisputeStatePerTransaction ==
    C18_Case =>
        /\ FamilyEffect(LastTx.transaction_type, Before, After, LatestAmount)
        /\ (LastTx.transaction_type # "dispute" /\ Before.held = Zero)
              => FLt(After.held, Zero)

\* deposit,1,1,100 ; chargeback,1,1 : the account is locked with held -100.
C18_Witness ==
    /\ C18_Case
    /\ processed = 2
    /\ file[1] = EndToEnd[1]
    /\ LastTx.transaction_type = "chargeback"
    /\ After.locked
    /\ After.available = Hundred
    /\ After.held = FNeg(Hundred)
    /\ After.total = Zero

(***************************************************************************)
(* C19.  No ownership check.  A dispute, resolve or chargeback whose       *)
(* client is not the client of the stored transaction is applied to the    *)
(* account of the row's own client, created if it was unseen, with the     *)
(* amount of the stored transaction; the account of the client that made   *)
(* the transaction, like every other account, stays as it was.             *)
(***************************************************************************)
C19_Owner == hist[1].ledger[LastTx.transaction_id].client_id

C19_Case ==
    /\ HasLast
    /\ LastTx.transaction_type \in DisputeFamily
    /\ OrigFound
    /\ C19_Owner # LastClient
    /\ ~Before.locked

C19_NoOwnershipCheck ==
    C19_Case =>
        /\ LastClient \in DOMAIN client_db
        /\ FamilyEffect(LastTx.transaction_type, Before, After, OrigAmount)
        /\ C19_Owner \in DOMAIN hist[1].clients
        /\ \A c \in DOMAIN hist[1].clients \ {LastClient} :
              client_db[c] = hist[1].clients[c]
        /\ DOMAIN client_db = DOMAIN hist[1].clients \cup {LastClient}

\* withdrawal,2,1,50 ; dispute,1,1 : client 1, unseen, gets available -50
\* and held 50; client 2 keeps its empty account.
C19_Witness ==
    /\ C19_Case
    /\ ~Known
    /\ processed = 2
    /\ LastTx.transaction_type = "dispute"
    /\ LastClient = 1
    /\ C19_Owner = 2
    /\ After.available = FNeg(Fifty)
    /\ After.held = Fifty
    /\ client_db[2] = Client_new(2)

(***************************************************************************)
(* C20.  Rounding an amount to 4 decimal places is idempotent: the amount  *)
(* stored for a row, rounded again, is itself, so the balance a deposit    *)
(* leaves is reported as it is stored.  A deposit and a withdrawal with    *)
(* the same amount column store the same amount.  The amount 10.00001 is   *)
(* stored and reported as 10.0.                                            *)
(***************************************************************************)
C20_Stored == transaction_db[1].amount.v

C20_Reported == (CHOOSE r \in output : r.client = 1).available

C20_RoundingIdempotent ==
    /\ (HasLast /\ pc = "running") =>
          /\ round_serialize(C20_Stored) = C20_Stored
          /\ C20_Stored = Transaction(Row("deposit", 1, 1, file[1].amount)).amount.v
          /\ C20_Stored = Transaction(Row("withdrawal", 1, 1, file[1].amount)).amount.v
          /\ file[1].amount = Raw(1000001) => C20_Stored = ParseF64(1000000)
    /\ (pc = "done" /\ file[1].type = "deposit") =>
          /\ C20_Reported = C20_Stored
          /\ file[1].amount = Raw(1000001) => C20_Reported = ParseF64(1000000)

(***************************************************************************)
(* C21.  Absent amounts are ignored.  A deposit or withdrawal row without  *)
(* an amount leaves its account as it was, and so does a dispute, resolve  *)
(* or chargeback of a stored transaction whose amount is absent: the       *)
(* chargeback does not lock the account.                                   *)
(***************************************************************************)
C21_Case ==
    /\ HasLast
    /\ \/ /\ LastTx.transaction_type \in {"deposit", "withdrawal"}
          /\ ~LastTx.amount.some
       \/ /\ LastTx.transaction_type \in DisputeFamily
          /\ LastTx.transaction_id \in DOMAIN hist[1].ledger
          /\ ~hist[1].ledger[LastTx.transaction_id].amount.some

C21_AbsentAmountIgnored ==
    C21_Case =>
        /\ SameBalances(After, Before)
        /\ After.client_id = LastClient

\* A chargeback of a stored deposit without amount, on a funded account that
\* is not locked.
C21_Witness ==
    /\ C21_Case
    /\ LastTx.transaction_type = "chargeback"
    /\ hist[1].ledger[LastTx.transaction_id].transaction_type = "deposit"
    /\ Known
    /\ FLt(Zero, Before.available)
    /\ ~After.locked

(***************************************************************************)
(* C22.  A deposit or withdrawal is recorded whether or not it took        *)
(* effect.  A withdrawal refused because available does not exceed its     *)
(* amount, and a deposit or withdrawal addressed to a locked account, are  *)
(* in the ledger under their tx id once handled, and a dispute, resolve or *)
(* chargeback of that tx id handled next on an account that is not locked  *)
(* moves the amount.                                                       *)
(***************************************************************************)
C22_Case ==
    /\ HasLast
    /\ LastTx.transaction_type \in {"deposit", "withdrawal"}
    /\ LastTx.amount.some
    /\ \/ Before.locked
       \/ /\ LastTx.transaction_type = "withdrawal"
          /\ ~FLt(LastTx.amount.v, Before.available)

\* The dispute, resolve or chargeback rows of the tx id just recorded.
C22_LaterRows ==
    {[transaction_type |-> type, client_id |-> c,
      transaction_id |-> LastTx.transaction_id, amount |-> None] :
        type \in DisputeFamily, c \in ClientIds}

C22_Account(db, c) == IF c \in DOMAIN db THEN db[c] ELSE Client_new(c)

C22_RecordedWithoutEffect ==
    C22_Case =>
        /\ SameBalances(After, Before)
        /\ LastTx.transaction_id \in DOMAIN transaction_db
        /\ transaction_db[LastTx.transaction_id] = LastTx
        /\ \A later \in C22_LaterRows :
              ~C22_Account(client_db, later.client_id).locked =>
                  FamilyEffect(later.transaction_type,
                               C22_Account(client_db, later.client_id),
                               handle_transaction(later, transaction_db,
                                                  client_db)[later.client_id],
                               LastTx.amount.v)

\* A deposit addressed to a locked account has been recorded under a tx id
\* the ledger did not hold, and the other client has no account yet.
C22_Witness ==
    /\ C22_Case
    /\ Before.locked
    /\ LastTx.transaction_type = "deposit"
    /\ LastTx.transaction_id \notin DOMAIN hist[1].ledger
    /\ DOMAIN client_db = {LastClient}
    /\ transaction_db[LastTx.transaction_id] = LastTx

(***************************************************************************)
(* C23.  A withdrawal that takes effect leaves available strictly above    *)
(* zero: available goes from above zero to zero or below only by a         *)
(* dispute or by a deposit of a non-positive amount.  In the code it does  *)
(* so by a resolve of a stored transaction with a negative amount as well. *)
(***************************************************************************)
C23_Case ==
    /\ HasLast
    /\ LastTx.transaction_type = "withdrawal"
    /\ LastTx.amount.some
    /\ ~Before.locked
    /\ FLt(LastTx.amount.v, Before.available)

\* available was above zero and is not any more
C23_Drops ==
    /\ HasLast
    /\ FLt(Zero, Before.available)
    /\ ~FLt(Zero, After.available)

C23_ByDispute ==
    /\ LastTx.transaction_type = "dispute"
    /\ OrigFound

C23_ByDeposit ==
    /\ LastTx.transaction_type = "deposit"
    /\ LastTx.amount.some
    /\ ~FLt(Zero, LastTx.amount.v)

C23_ByResolve ==
    /\ LastTx.transaction_type = "resolve"
    /\ OrigFound
    /\ FLt(OrigAmount, Zero)

\* C23 as stated: an effective withdrawal leaves available above zero, and
\* only a dispute or a non-positive deposit takes available from above zero
\* to zero or below.
C23_OnlyDisputeOrDeposit ==
    /\ C23_Case => FLt(Zero, After.available)
    /\ C23_Drops => (C23_ByDispute \/ C23_ByDeposit)

\* C23 with the third cause: an effective withdrawal leaves available above
\* zero, and only a dispute, a non-positive deposit or a resolve of a
\* negative amount takes available from above zero to zero or below.
C23_WithdrawalLeavesPositive ==
    /\ C23_Case =>
          /\ FLt(Zero, After.available)
          /\ After.available = FSub(Before.available, LastTx.amount.v)
    /\ C23_Drops => (C23_ByDispute \/ C23_ByDeposit \/ C23_ByResolve)

\* A withdrawal of 0.1 has taken effect on an account whose available came
\* from a withdrawal of -0.4.
C23_Witness ==
    /\ C23_Case
    /\ processed = 2
    /\ file[1] = Row("withdrawal", 1, 1, Raw(-40000))
    /\ file[2] = Row("withdrawal", 1, 2, Raw(10000))
    /\ FLt(Zero, After.available)
    /\ FLt(After.available, Before.available)

(***************************************************************************)
(* C24.  The lock is monotone and has one cause.  An account that was      *)
(* locked when a row arrived is locked after it; an account becomes locked *)
(* only by a chargeback addressed to its client whose tx id is in the      *)
(* ledger with an amount.                                                  *)
(***************************************************************************)
C24_WasLocked(c) == c \in DOMAIN hist[1].clients /\ hist[1].clients[c].locked

C24_LockMonotoneSingleCause ==
    HasLast =>
        \A c \in DOMAIN client_db :
            /\ C24_WasLocked(c) => client_db[c].locked
            /\ (~C24_WasLocked(c) /\ client_db[c].locked) =>
                  /\ LastTx.transaction_type = "chargeback"
                  /\ LastClient = c
                  /\ OrigFound

\* A resolve of a stored transaction has been handled on an account locked
\* by an earlier chargeback, and the account is still locked.
C24_Witness ==
    /\ HasLast
    /\ processed = 3
    /\ LastTx.transaction_type = "resolve"
    /\ OrigFound
    /\ C24_WasLocked(LastClient)
    /\ After.locked
    /\ DOMAIN client_db = {LastClient}

(***************************************************************************)
(* C25.  Handling a row of client c changes at most the account of c and,  *)
(* for a deposit or withdrawal, the ledger entry under its tx id: every    *)
(* other account and every other ledger entry is what it was, nothing else *)
(* appears, and a dispute, resolve or chargeback leaves the whole ledger   *)
(* as it was.                                                              *)
(***************************************************************************)
C25_FrameOfOneRow ==
    HasLast =>
        /\ DOMAIN client_db = DOMAIN hist[1].clients \cup {LastClient}
        /\ \A c \in DOMAIN hist[1].clients \ {LastClient} :
              client_db[c] = hist[1].clients[c]
        /\ DOMAIN transaction_db \subseteq
              DOMAIN hist[1].ledger \cup {LastTx.transaction_id}
        /\ \A id \in DOMAIN hist[1].ledger \ {LastTx.transaction_id} :
              /\ id \in DOMAIN transaction_db
              /\ transaction_db[id] = hist[1].ledger[id]
        /\ LastTx.transaction_type \in DisputeFamily =>
              transaction_db = hist[1].ledger

\* A chargeback by one client of the other client's deposit has changed its
\* own account, while both clients have funded accounts and the ledger holds
\* two entries.
C25_Witness ==
    /\ HasLast
    /\ LastTx.transaction_type = "chargeback"
    /\ DOMAIN hist[1].clients = {1, 2}
    /\ DOMAIN hist[1].ledger = {1, 2}
    /\ \A c \in {1, 2} : FLt(Zero, hist[1].clients[c].available)
    /\ hist[1].ledger[LastTx.transaction_id].client_id # LastClient
    /\ After.locked
    /\ After # Before

====
